---- MODULE Spec2Model ----
(***************************************************************************)
(* Download-progress instrumentation of hf-hub (src/api/mod.rs):           *)
(*   - MovingAvgRate, the sliding-window throughput estimator registered   *)
(*     as the "bytes_per_sec_smoothed" key of the progress bar's style;    *)
(*   - the display-width aware truncation of the file name performed by    *)
(*     <ProgressBar as Progress>::init.                                    *)
(*                                                                         *)
(* Instants are counted in clock units, UnitsPerMs of them to the          *)
(* millisecond, so that Duration::as_millis really truncates.              *)
(***************************************************************************)
EXTENDS Integers, Sequences, FiniteSets

VARIABLES
    samples,      \* MovingAvgRate.samples : VecDeque<(Instant, u64)>, front first
    now,          \* the Instant handed to the latest tick
    ticks,        \* number of ticks delivered so far (bounds the run)
    posMonotone,  \* history: no tick so far carried a position below its predecessor's
    timeMonotone, \* history: no tick so far carried an Instant before its predecessor's
    lastPos,      \* history: position carried by the latest tick
    lastOp,       \* the operation that produced this state
    prevOp,       \* the operation before it
    prevLen,      \* samples.len() before the latest operation
    prevLen2,     \* samples.len() before the operation before it
    out,          \* what the latest render query (write) put into the formatter
    label,        \* the filename given to init
    message       \* the message init set on the bar

vars == <<samples, now, ticks, posMonotone, timeMonotone, lastPos, lastOp, prevOp, prevLen,
          prevLen2, out, label, message>>

-----------------------------------------------------------------------------
(* Bounds of the model *)

UnitsPerMs == 3      \* clock resolution: units per millisecond
MaxTicks == 4        \* ticks in one run
MaxPos == 2          \* positions 0..MaxPos are reported by ticks

(* Program constants *)

GateMillis == 20     \* Duration::from_millis(20)
WindowSecs == 1      \* Duration::from_secs(1)

from_millis(ms) == ms * UnitsPerMs
from_secs(s) == s * 1000 * UnitsPerMs

\* Duration::as_millis: whole milliseconds, the remainder dropped
as_millis(d) == d \div UnitsPerMs

\* Instant - Instant (Instant::duration_since): saturates to zero when the
\* right-hand side is the later one
InstantSub(a, b) == IF a >= b THEN a - b ELSE 0

\* the Instant of a tick differs from that of the tick before it by one of
\* these amounts; a caller that reads the clock before it takes the bar's lock
\* can deliver an earlier Instant after a later one
Deltas == {-1, 0, from_millis(GateMillis), from_millis(GateMillis) + 1,
           from_secs(WindowSecs), from_secs(WindowSecs) + 1}

Positions == 0..MaxPos

-----------------------------------------------------------------------------
(* MovingAvgRate *)

Sample(t, p) == [t |-> t, pos |-> p]

front(q) == q[1]
back(q) == q[Len(q)]

\* the gate comparing with `>=` in place of `>`
Gate_ge(q, t) == q = <<>> \/ InstantSub(t, back(q).t) >= from_millis(GateMillis)

\* the gate written with is_some_and in place of is_none_or
Gate_some(q, t) == q # <<>> /\ InstantSub(t, back(q).t) > from_millis(GateMillis)

\* tick, lines 112-118: sample at most every 20ms
Gate(q, t) == q = <<>> \/ InstantSub(t, back(q).t) > from_millis(GateMillis)

\* tick without the 20 ms gate
PushIfDue_always(q, t, p) == Append(q, Sample(t, p))

\* tick using push_front in place of push_back
PushIfDue_front(q, t, p) == IF Gate(q, t) THEN <<Sample(t, p)>> \o q ELSE q

PushIfDue(q, t, p) == IF Gate(q, t) THEN Append(q, Sample(t, p)) ELSE q

\* tick with `if let` in place of `while let`: at most one sample is popped
Trim_once(q, t) ==
    IF q # <<>> /\ InstantSub(t, front(q).t) > from_secs(WindowSecs)
    THEN Tail(q)
    ELSE q

\* the trim comparing with `>=` in place of `>`
RECURSIVE Trim_ge(_, _)
Trim_ge(q, t) ==
    IF q # <<>> /\ InstantSub(t, front(q).t) >= from_secs(WindowSecs)
    THEN Trim_ge(Tail(q), t)
    ELSE q

\* tick, lines 120-126: pop from the front while it is more than 1s old
RECURSIVE Trim(_, _)
Trim(q, t) ==
    IF q # <<>> /\ InstantSub(t, front(q).t) > from_secs(WindowSecs)
    THEN Trim(Tail(q), t)
    ELSE q

TickWindow(q, t, p) == Trim(PushIfDue(q, t, p), t)

\* reset that forgets to replace the window
ResetWindow_kept(q) == q

\* reset: self.samples = Default::default()
ResetWindow(q) == <<>>


\* the u64 subtraction p1 - p0 of write (line 137).  When p1 < p0 the result
\* depends on the build: with overflow checks (debug profile) the thread
\* panics, without them (release profile) the value wraps to 2^64 + (p1 - p0).
\* A wrapped value is carried as the signed difference with wrapped = TRUE.
SubU64(a, b) ==
    IF a >= b
    THEN {[fault |-> FALSE, wrapped |-> FALSE, v |-> a - b]}
    ELSE {[fault |-> TRUE, wrapped |-> FALSE, v |-> 0],
          [fault |-> FALSE, wrapped |-> TRUE, v |-> a - b]}

Placeholder == [kind |-> "placeholder", value |-> 0, saturated |-> FALSE,
                underflow |-> FALSE]
Panic == [kind |-> "panic", value |-> 0, saturated |-> FALSE, underflow |-> TRUE]
Number(n) == [kind |-> "rate", value |-> n, saturated |-> FALSE,
              underflow |-> FALSE]
\* the rate u64::MAX, which the float-to-int cast saturates to
Saturated(u) == [kind |-> "rate", value |-> 0, saturated |-> TRUE,
                 underflow |-> u]

\* ((p1 - p0) as f64 * 1000f64 / elapsed_ms as f64) as u64, line 137.
\* The cast truncates toward zero, maps NaN to 0 and saturates at u64::MAX.
\* A wrapped difference is at least 2^64 - MaxPos and elapsed_ms is at most
\* 1000, so the quotient is at least 2^64 and the cast saturates.
RateOf(d, elapsed_ms) ==
    IF d.wrapped THEN Saturated(TRUE)
    ELSE IF elapsed_ms = 0
         THEN (IF d.v = 0 THEN Number(0) ELSE Saturated(FALSE))
         ELSE Number((d.v * 1000) \div elapsed_ms)

\* write whose match guard is `len() > 0`
write_nonempty(q) ==
    IF Len(q) > 0
    THEN LET elapsed_ms == as_millis(InstantSub(back(q).t, front(q).t))
         IN  {IF d.fault THEN Panic ELSE RateOf(d, elapsed_ms) :
                 d \in SubU64(back(q).pos, front(q).pos)}
    ELSE {Placeholder}

\* write that subtracts the endpoints the other way round, p0 - p1
write_swapped(q) ==
    IF Len(q) > 1
    THEN LET elapsed_ms == as_millis(InstantSub(back(q).t, front(q).t))
         IN  {IF d.fault THEN Panic ELSE RateOf(d, elapsed_ms) :
                 d \in SubU64(front(q).pos, back(q).pos)}
    ELSE {Placeholder}

\* write, lines 133-142: the set of outcomes the builds can produce
write(q) ==
    IF Len(q) > 1
    THEN LET elapsed_ms == as_millis(InstantSub(back(q).t, front(q).t))
         IN  {IF d.fault THEN Panic ELSE RateOf(d, elapsed_ms) :
                 d \in SubU64(back(q).pos, front(q).pos)}
    ELSE {Placeholder}

-----------------------------------------------------------------------------
(* <ProgressBar as Progress>::init: the message shown for a filename *)

\* A filename is a sequence of characters.  Five characters stand for the
\* classes unicode_width and UTF-8 tell apart:
\*   "a", "b" U+0061 and U+0062, width Some(1), 1 byte
\*   "ACUTE"  U+0301 combining acute accent, width Some(0), 2 bytes
\*   "CJK"    U+4E2D, width Some(2), 3 bytes
\*   "KANA"   U+30A2, width Some(2), 3 bytes (used by the all-wide labels)
\*   "BEL"    U+0007 control character, width None, 1 byte
\* and "." is U+002E, width Some(1), 1 byte.
Alphabet == {"a", "b", "ACUTE", "CJK", "BEL"}

\* UnicodeWidthChar::width: <<>> is None, <<n>> is Some(n)
width(c) ==
    CASE c = "ACUTE" -> <<0>>
      [] c = "CJK" -> <<2>>
      [] c = "KANA" -> <<2>>
      [] c = "BEL" -> <<>>
      [] OTHER -> <<1>>

unwrap_or(opt, default) == IF opt = <<>> THEN default ELSE opt[1]

\* char::len_utf8
len_utf8(c) ==
    CASE c = "ACUTE" -> 2
      [] c = "CJK" -> 3
      [] c = "KANA" -> 3
      [] OTHER -> 1

maxlength == 30

\* target width that reserves no cells for the ".." prefix
target_width_full == maxlength

\* let target_width = maxlength - 2, line 52
target_width == maxlength - 2

\* byte offset of the k-th character of s (1-based); k = Len(s) + 1 gives s.len()
RECURSIVE ByteOffset(_, _)
ByteOffset(s, k) == IF k <= 1 THEN 0 ELSE ByteOffset(s, k - 1) + len_utf8(s[k - 1])

\* filename.chars().map(|c| c.width().unwrap_or(0)).sum(), line 47
RECURSIVE DisplayWidth(_)
DisplayWidth(s) ==
    IF s = <<>> THEN 0
    ELSE unwrap_or(width(Head(s)), 0) + DisplayWidth(Tail(s))

\* the loop breaking on `>=` in place of `>`
RECURSIVE ScanBack_ge(_, _, _, _)
ScanBack_ge(s, k, current_width, start_index) ==
    IF k = 0 THEN start_index
    ELSE LET char_width == unwrap_or(width(s[k]), 0)
         IN  IF current_width + char_width >= target_width
             THEN start_index
             ELSE ScanBack_ge(s, k - 1, current_width + char_width,
                              ByteOffset(s, k))

\* the loop counting one cell for every character, whatever its width
RECURSIVE ScanBack_chars(_, _, _, _)
ScanBack_chars(s, k, current_width, start_index) ==
    IF k = 0 THEN start_index
    ELSE LET char_width == 1
         IN  IF current_width + char_width > target_width
             THEN start_index
             ELSE ScanBack_chars(s, k - 1, current_width + char_width,
                                 ByteOffset(s, k))

\* the loop of lines 56-66 over filename.char_indices().rev(), entered at the
\* k-th character with the given current_width and start_index; yields the
\* final start_index
RECURSIVE ScanBack(_, _, _, _)
ScanBack(s, k, current_width, start_index) ==
    IF k = 0 THEN start_index
    ELSE LET char_width == unwrap_or(width(s[k]), 0)
         IN  IF current_width + char_width > target_width
             THEN start_index
             ELSE ScanBack(s, k - 1, current_width + char_width,
                           ByteOffset(s, k))

\* the slice taken as &filename[..start_index]
SliceFrom_head(s, start_index) ==
    LET first == CHOOSE k \in 1..(Len(s) + 1) :
                     /\ ByteOffset(s, k) >= start_index
                     /\ \A j \in 1..(k - 1) : ByteOffset(s, j) < start_index
    IN  SubSeq(s, 1, first - 1)

\* &filename[start_index..]: the characters at byte offsets >= start_index
SliceFrom(s, start_index) ==
    LET first == CHOOSE k \in 1..(Len(s) + 1) :
                     /\ ByteOffset(s, k) >= start_index
                     /\ \A j \in 1..(k - 1) : ByteOffset(s, j) < start_index
    IN  SubSeq(s, first, Len(s))

\* init comparing display_width with target_width in place of maxlength
InitMessage_target(filename) ==
    IF DisplayWidth(filename) <= target_width
    THEN filename
    ELSE LET start_index == ScanBack(filename, Len(filename), 0,
                                     ByteOffset(filename, Len(filename) + 1))
         IN  <<".", ".">> \o SliceFrom(filename, start_index)

\* lines 45-69: the message for a filename
InitMessage(filename) ==
    IF DisplayWidth(filename) <= maxlength
    THEN filename
    ELSE LET start_index == ScanBack(filename, Len(filename), 0,
                                     ByteOffset(filename, Len(filename) + 1))
         IN  <<".", ".">> \o SliceFrom(filename, start_index)

-----------------------------------------------------------------------------
(* The estimator driven by the progress bar *)

NoOutput == [kind |-> "none", value |-> 0, saturated |-> FALSE,
             underflow |-> FALSE]

Running == out.kind # "panic"

Init ==
    /\ samples = <<>>
    /\ now = 0
    /\ ticks = 0
    /\ posMonotone = TRUE
    /\ timeMonotone = TRUE
    /\ lastPos = 0
    /\ lastOp = "new"
    /\ prevOp = "new"
    /\ prevLen = 0
    /\ prevLen2 = 0
    /\ out = NoOutput
    /\ label = <<>>
    /\ message = <<>>

Step(op) ==
    /\ lastOp' = op
    /\ prevOp' = lastOp
    /\ prevLen' = Len(samples)
    /\ prevLen2' = prevLen

\* ProgressTracker::tick(state, now) with state.pos() = p, d after the last tick
TickStep(d, p) ==
    /\ Running
    /\ now + d >= 0
    /\ ticks' = ticks + 1
    /\ now' = now + d
    /\ samples' = TickWindow(samples, now + d, p)
    /\ posMonotone' = (posMonotone /\ (ticks = 0 \/ p >= lastPos))
    /\ timeMonotone' = (timeMonotone /\ d >= 0)
    /\ lastPos' = p
    /\ Step("tick")
    /\ UNCHANGED <<out, label, message>>

Tick(d, p) == ticks < MaxTicks /\ TickStep(d, p)

\* ProgressTracker::reset
Reset ==
    /\ Running
    /\ samples' = ResetWindow(samples)
    /\ Step("reset")
    /\ UNCHANGED <<now, ticks, posMonotone, timeMonotone, lastPos, out, label, message>>

\* ProgressTracker::write
Write ==
    /\ Running
    /\ \E o \in write(samples) : out' = o
    /\ Step("write")
    /\ UNCHANGED <<samples, now, ticks, posMonotone, timeMonotone,
                   lastPos, label, message>>

\* init that leaves the style, and with it the tracker, of the earlier file
ProgressInit_keeps(filename) ==
    /\ Running
    /\ label' = filename
    /\ message' = InitMessage(filename)
    /\ Step("init")
    /\ UNCHANGED <<samples, now, ticks, posMonotone, timeMonotone, lastPos, out>>

\* <ProgressBar as Progress>::init(size, filename): set_length, a new style
\* whose "bytes_per_sec_smoothed" tracker is MovingAvgRate::default(), and the
\* message
ProgressInit(filename) ==
    /\ Running
    /\ samples' = <<>>
    /\ label' = filename
    /\ message' = InitMessage(filename)
    /\ Step("init")
    /\ UNCHANGED <<now, ticks, posMonotone, timeMonotone, lastPos, out>>

\* what a call on the null sink leaves alone: everything but the record of
\* the call itself
NullFrame ==
    UNCHANGED <<samples, now, ticks, posMonotone, timeMonotone, lastPos, out,
                label, message>>

\* a null sink whose init runs the progress bar's body
NullInit_delegates(size, filename) ==
    /\ Running
    /\ samples' = <<>>
    /\ label' = filename
    /\ message' = InitMessage(filename)
    /\ Step("null.init")
    /\ UNCHANGED <<now, ticks, posMonotone, timeMonotone, lastPos, out>>

\* impl Progress for (), lines 30-34: three empty bodies
NullInit(size, filename) == Running /\ Step("null.init") /\ NullFrame

NullUpdate(size) == Running /\ Step("null.update") /\ NullFrame

NullFinish == Running /\ Step("null.finish") /\ NullFrame

Next ==
    \/ \E d \in Deltas, p \in Positions : Tick(d, p)
    \/ Reset
    \/ Write

Spec == Init /\ [][Next]_vars

-----------------------------------------------------------------------------
(* A driver that owns a progress bar, reused from file to file, and a null
   sink: init and the bar's ticks and render queries, and the null sink's
   three operations in any order *)

\* the filenames of the files downloaded: a short one and an overlong one
BarLabels == {<<"a", "b">>, <<"b">> \o [i \in 1..maxlength |-> "a"]}

\* the sizes passed to the null sink
Sizes == {0, MaxPos}

\* the bar's ticks come just over 20 ms apart, so that each one is sampled
BarDeltas == {from_millis(GateMillis) + 1}

NextBar ==
    \/ \E f \in BarLabels : ProgressInit(f)
    \/ \E d \in BarDeltas, p \in Positions : Tick(d, p)
    \/ Write
    \/ \E n \in Sizes, f \in BarLabels : NullInit(n, f)
    \/ \E n \in Sizes : NullUpdate(n)
    \/ NullFinish

SpecBar == Init /\ [][NextBar]_vars

-----------------------------------------------------------------------------
(* The estimator under a steady stream of ticks, one period per run, for a
   little over a second: every clock unit, every 20 ms, or every 20 ms and a
   unit.  The position grows by one with each tick. *)

DenseSteps == {1, from_millis(GateMillis), from_millis(GateMillis) + 1}

DenseHorizon == from_secs(WindowSecs) + 3 * from_millis(GateMillis)

DenseTick ==
    \E d \in DenseSteps :
        /\ ticks = 0 \/ now = ticks * d
        /\ now + d <= DenseHorizon
        /\ TickStep(d, ticks + 1)

NextDense ==
    \/ DenseTick
    \/ Write

SpecDense == Init /\ [][NextDense]_vars

-----------------------------------------------------------------------------
(* init applied to a family of filenames, and again to its own message *)

MaxPre == 1          \* characters before the run
MaxRun == 40         \* length of the run of one repeated character
MaxSuf == 1          \* characters after the run

RECURSIVE Repeat(_, _)
Repeat(c, n) == IF n = 0 THEN <<>> ELSE <<c>> \o Repeat(c, n - 1)

SeqsUpTo(S, n) == UNION {[1..k -> S] : k \in 0..n}

MixedLabels ==
    {pre \o Repeat(c, n) \o suf :
        pre \in SeqsUpTo(Alphabet, MaxPre), c \in Alphabet, n \in 0..MaxRun,
        suf \in SeqsUpTo(Alphabet, MaxSuf)}

\* filenames of wide characters only
WideAlphabet == {"CJK", "KANA"}

WideLabels ==
    {pre \o Repeat(c, n) \o suf :
        pre \in SeqsUpTo(WideAlphabet, MaxPre), c \in WideAlphabet,
        n \in 0..MaxRun, suf \in SeqsUpTo(WideAlphabet, MaxSuf)}

Labels == MixedLabels \cup WideLabels

InitLabel ==
    /\ label \in Labels
    /\ message = <<>>
    /\ samples = <<>>
    /\ now = 0
    /\ ticks = 0
    /\ posMonotone = TRUE
    /\ timeMonotone = TRUE
    /\ lastPos = 0
    /\ lastOp = "new"
    /\ prevOp = "new"
    /\ prevLen = 0
    /\ prevLen2 = 0
    /\ out = NoOutput

NextLabel ==
    \/ lastOp = "new" /\ ProgressInit(label)
    \/ lastOp = "init" /\ prevOp = "new" /\ ProgressInit(message)

SpecLabel == InitLabel /\ [][NextLabel]_vars

-----------------------------------------------------------------------------
(* Properties of the estimator, checked under Spec *)

\* C1: a render query made while the window holds fewer than 2 samples emits
\* the "-" placeholder, never a numeric rate.
C1_FewSamplesPlaceholder ==
    (lastOp = "write" /\ prevLen < 2) => out = Placeholder

\* a query that found exactly one sample, after ticks
C1_Witness ==
    lastOp = "write" /\ prevLen = 1 /\ Len(samples) = 1 /\ out = Placeholder

\* C2: while every tick so far carried a position and a timestamp no lower
\* than the tick before it, a render query that yields a rate yields a
\* number >= 0 computed from posLast - posFirst >= 0: no underflow.
C2_RateNonNegative ==
    (lastOp = "write" /\ posMonotone /\ timeMonotone /\ out # Placeholder) =>
        /\ out.kind = "rate"
        /\ ~out.underflow
        /\ out.value >= 0
        /\ back(samples).pos >= front(samples).pos

\* a positive rate rendered from a window of three samples
C2_Witness ==
    /\ lastOp = "write" /\ posMonotone /\ timeMonotone
    /\ out.kind = "rate" /\ out.value > 0
    /\ Len(samples) >= 3

\* C3: after every completed tick(now), ticks arriving in non-decreasing
\* time order, the oldest retained sample is at most 1 second older than now,
\* and the span between the oldest and the newest retained sample is at most
\* 1 second.
C3_WindowWithinOneSecond ==
    (timeMonotone /\ samples # <<>>) =>
        /\ now - front(samples).t <= from_secs(WindowSecs)
        /\ back(samples).t - front(samples).t <= from_secs(WindowSecs)

\* a tick that evicted old samples and kept a window spanning a full second
C3_Witness ==
    /\ lastOp = "tick" /\ timeMonotone /\ prevLen >= 2 /\ Len(samples) = 2
    /\ now > from_secs(WindowSecs)
    /\ back(samples).t - front(samples).t = from_secs(WindowSecs)

\* C4: reset empties the window whatever it held, and a render query made
\* right after reset, before any tick, emits the placeholder.
C4_ResetThenPlaceholder ==
    /\ lastOp = "reset" => samples = <<>>
    /\ (lastOp = "write" /\ prevOp = "reset") => out = Placeholder

\* reset of a window of >= 2 samples, then a query
C4_Witness ==
    /\ lastOp = "write" /\ prevOp = "reset" /\ prevLen2 >= 2
    /\ out = Placeholder

\* C6: a render query never emits a rate computed from an underflowed
\* posLast - posFirst and never faults, also after a tick delivered a
\* position below the oldest retained sample's.
C6_NoUnderflow ==
    lastOp = "write" => (out.kind # "panic" /\ ~out.underflow)

-----------------------------------------------------------------------------
(* Properties of the filename truncation, checked under SpecLabel *)

\* terminal cells of one character and of a string, as the truncator's
\* description counts them: wide 2, zero-width and control 0, others 1
Cells(c) ==
    IF c \in {"CJK", "KANA"} THEN 2 ELSE IF c \in {"ACUTE", "BEL"} THEN 0 ELSE 1

RECURSIVE CellsOf(_)
CellsOf(s) == IF s = <<>> THEN 0 ELSE Cells(Head(s)) + CellsOf(Tail(s))

Suffix(s, k) == SubSeq(s, Len(s) - k + 1, Len(s))

\* the longest suffix of s, cut between characters, of at most w cells
LongestSuffixWithin(s, w) ==
    LET fits == {k \in 0..Len(s) : CellsOf(Suffix(s, k)) <= w}
        best == CHOOSE k \in fits : \A j \in fits : j <= k
    IN  Suffix(s, best)

Reference(s) ==
    IF CellsOf(s) <= 30 THEN s
    ELSE <<".", ".">> \o LongestSuffixWithin(s, 28)

Truncated == lastOp = "init" /\ CellsOf(label) > 30

\* C7: the message set by init is the label itself when its display width is
\* <= 30, and otherwise ".." followed by the longest suffix of the label, cut
\* at a character boundary, whose display width is <= 28.
C7_MessageIsReference ==
    lastOp = "init" => message = Reference(label)

\* a label cut in front of a wide character that no longer fits: the suffix
\* kept is 27 cells wide and begins with zero-width characters or a 1-cell one
C7_Witness ==
    /\ Truncated
    /\ CellsOf(message) = 29
    /\ \E c \in {"CJK"}, i \in 1..Len(label) : label[i] = c
    /\ message = Reference(label)

\* C8: the display width of the message produced by init, the ".." marker
\* included, is at most 30.
C8_MessageFits ==
    lastOp = "init" => CellsOf(message) <= 30

\* a truncated label mixing zero-width, 1-cell and 2-cell characters whose
\* message fills all 30 cells
C8_Witness ==
    /\ Truncated
    /\ CellsOf(message) = 30
    /\ \E i, j, k \in 1..Len(label) :
          Cells(label[i]) = 0 /\ Cells(label[j]) = 1 /\ Cells(label[k]) = 2

\* C9: truncation is idempotent: init given the message of an earlier init
\* as its filename sets that same message again.
C9_Idempotent ==
    (lastOp = "init" /\ prevOp = "init") => message = label

\* the second init received a message that the first one had truncated
C9_Witness ==
    /\ lastOp = "init" /\ prevOp = "init"
    /\ Len(label) > 2 /\ label[1] = "." /\ label[2] = "."
    /\ CellsOf(label) = 30
    /\ message = label

AllAscii(s) == \A i \in 1..Len(s) : s[i] \in {"a", "b", "."}

\* C10: for a label of width-1 (ASCII) characters only that is longer than 30
\* characters, the message is ".." followed by exactly its last 28 characters.
C10_AsciiLast28 ==
    (lastOp = "init" /\ AllAscii(label) /\ Len(label) > 30) =>
        message = <<".", ".">> \o SubSeq(label, Len(label) - 27, Len(label))

\* the 40-character instance, with distinct first and last characters
C10_Witness ==
    /\ lastOp = "init" /\ AllAscii(label) /\ Len(label) = 40
    /\ label[1] = "b" /\ label[40] = "b" /\ label[39] = "a"
    /\ Len(message) = 30 /\ message[30] = "b" /\ message[3] = "a"

AllWide(s) == \A i \in 1..Len(s) : Cells(s[i]) = 2

\* C11: for a label of width-2 characters only whose display width exceeds 30
\* (more than 15 characters), the message is ".." followed by exactly its
\* last 14 characters.
C11_WideLast14 ==
    (lastOp = "init" /\ AllWide(label) /\ Len(label) > 15) =>
        message = <<".", ".">> \o SubSeq(label, Len(label) - 13, Len(label))

\* the shortest such label, 16 wide characters, its first two and its last
\* two characters distinct
C11_Witness ==
    /\ lastOp = "init" /\ AllWide(label) /\ Len(label) = 16
    /\ label[1] # label[2] /\ label[15] # label[16]
    /\ Len(message) = 16 /\ message[16] = label[16] /\ message[3] = label[3]

-----------------------------------------------------------------------------
(* Properties of single ticks, checked under Spec *)

IsSuffix(a, b) ==
    Len(a) <= Len(b) /\ a = SubSeq(b, Len(b) - Len(a) + 1, Len(b))

\* a step is a tick exactly when the count of ticks grows
TickTaken == ticks' = ticks + 1

\* C14: tick(pos, now) appends (now, pos) to the back of the window if and
\* only if the window is empty or now is strictly more than 20 ms after the
\* last retained sample; otherwise, exactly 20 ms included, it appends nothing
\* and what it retains of the window is unchanged.
C14_AppendIffDue ==
    [][TickTaken =>
          LET s == Sample(now', lastPos')
              due == \/ samples = <<>>
                     \/ now' - back(samples).t > GateMillis * UnitsPerMs
          IN  IF due
              THEN /\ samples' # <<>>
                   /\ back(samples') = s
                   /\ IsSuffix(samples', Append(samples, s))
              ELSE IsSuffix(samples', samples)]_vars

\* a tick exactly 20 ms after the last sample: nothing appended
C14_Witness ==
    /\ lastOp = "tick" /\ prevLen >= 1 /\ Len(samples) = prevLen
    /\ now - back(samples).t = GateMillis * UnitsPerMs

\* C15: the trim pass of tick(now) removes exactly the samples strictly more
\* than 1 second older than now: a sample exactly 1 second old stays, none
\* within the last second goes, and the retained samples keep their order.
C15_TrimExact ==
    [][TickTaken =>
          LET Fresh(x) == now' - x.t <= WindowSecs * 1000 * UnitsPerMs
          IN  \E q \in {samples, Append(samples, Sample(now', lastPos'))} :
                 samples' = SelectSeq(q, Fresh)]_vars

\* a tick that evicted two samples and kept one that is exactly 1 second old
C15_Witness ==
    /\ lastOp = "tick" /\ prevLen = 3 /\ Len(samples) = 2
    /\ now - front(samples).t = WindowSecs * 1000 * UnitsPerMs

\* bytes per second between the two endpoints of a window, whole
\* milliseconds in the divisor, the quotient truncated
EndpointRate(q) ==
    ((back(q).pos - front(q).pos) * 1000)
        \div ((back(q).t - front(q).t) \div UnitsPerMs)

\* C16: when the window holds >= 2 samples, the numeric rate a render query
\* emits is (posLast - posFirst) * 1000 divided by the whole milliseconds
\* between the first and the last retained sample, truncated to an integer.
C16_RateIsEndpointQuotient ==
    (lastOp = "write" /\ Len(samples) >= 2 /\ out.kind = "rate") =>
        out = Number(EndpointRate(samples))

\* C17 as stated: the estimator moves only along empty -> sampling (1
\* sample) -> steady (>= 2 samples) under ticks: no tick takes it from steady
\* back to sampling or to empty, nor from sampling to empty.
C17_NoTickLeavesSteady ==
    lastOp = "tick" =>
        /\ prevLen >= 2 => Len(samples) >= 2
        /\ prevLen >= 1 => Len(samples) >= 1

\* C17 as the code has it: a tick takes empty to sampling, adds at most one
\* sample, and never leaves the window empty; it takes steady back to
\* sampling only when every sample but the newest is more than 1 second
\* older than the tick.  Only reset (or creation) gives the empty state.
C17_TickNeverEmpties ==
    /\ lastOp = "tick" =>
          /\ Len(samples) >= 1
          /\ Len(samples) <= prevLen + 1
          /\ prevLen = 0 => Len(samples) = 1
          /\ (prevLen >= 2 /\ Len(samples) = 1) =>
                 now - front(samples).t <= GateMillis * UnitsPerMs
    /\ samples = <<>> => lastOp \in {"new", "reset", "write"}
    /\ (samples = <<>> /\ lastOp = "write") => prevLen = 0

\* a tick after a pause of more than a second: from three samples to one
C17_Witness ==
    lastOp = "tick" /\ prevLen = 3 /\ Len(samples) = 1

\* C18: with ticks in non-decreasing time order, any two consecutive retained
\* samples are strictly more than 20 ms apart, so a window of >= 2 samples
\* spans at least 20 whole milliseconds and the divisor of the rate is not 0.
C18_SamplesSpaced ==
    timeMonotone =>
        /\ \A i \in 1..(Len(samples) - 1) :
              samples[i + 1].t - samples[i].t > GateMillis * UnitsPerMs
        /\ Len(samples) >= 2 =>
              (back(samples).t - front(samples).t) \div UnitsPerMs >= GateMillis

\* two samples as close as the gate lets them be: 20 whole milliseconds
C18_Witness ==
    /\ timeMonotone /\ Len(samples) = 2
    /\ samples[2].t - samples[1].t = GateMillis * UnitsPerMs + 1
    /\ (back(samples).t - front(samples).t) \div UnitsPerMs = GateMillis

\* C20: after every completed tick(now) the window is non-empty and its
\* newest sample is at most 20 ms older than now: the trim never evicts the
\* newest sample, and no tick leaves the estimator empty.
C20_NewestIsRecent ==
    lastOp = "tick" =>
        /\ samples # <<>>
        /\ now - back(samples).t <= GateMillis * UnitsPerMs
        /\ \A i \in 1..Len(samples) : samples[i].t <= back(samples).t

\* a tick that evicted every older sample and kept only the one it appended
C20_Witness ==
    /\ lastOp = "tick" /\ prevLen >= 2
    /\ samples # <<>> /\ front(samples).t = now /\ back(samples).t = now

-----------------------------------------------------------------------------
(* Properties of the window under dense ticks, checked under SpecDense *)

\* C19: after every completed tick, however densely the ticks are spaced,
\* the window holds at most 50 samples.
C19_AtMostFiftySamples ==
    Len(samples) <= 50

\* a full window: 50 samples, the tick evicted one and appended one
C19_Witness ==
    /\ lastOp = "tick" /\ prevLen = 50 /\ Len(samples) = 50
    /\ back(samples).t = now

-----------------------------------------------------------------------------
(* Properties of the sinks, checked under SpecBar *)

NullOps == {"null.init", "null.update", "null.finish"}

\* C12: every call of the null sink's init, update or finish, in any order
\* and with any arguments, leaves all state unchanged and does not fail.
C12_NullSinkNoEffect ==
    [][lastOp' \in NullOps =>
          /\ UNCHANGED <<samples, now, out, label, message>>
          /\ out'.kind # "panic"]_vars

\* finish then init on the null sink, out of the contract's order, while the
\* bar shows a truncated name and its estimator holds a window
C12_Witness ==
    /\ lastOp = "null.init" /\ prevOp = "null.finish"
    /\ Len(samples) >= 2 /\ Len(message) > 2

=============================================================================
